---- MODULE Spec2Model ----
(***************************************************************************)
(* Vote ingestion (ingest1.py, ingest.py) and weekly outlier detection     *)
(* (outliers1.py, outliers.py) as state machines.                          *)
(*                                                                         *)
(* JSON values are tagged records [kind, val]: kind "int" carries an       *)
(* integer, "str" a sequence of one-character strings, "null" nothing, and *)
(* "datetime" (produced by strptime only) a tuple <<Y, M, D, h, m, s>>.    *)
(* A JSON object (a Python dict) is a sequence of <<key, value>> pairs     *)
(* with distinct keys, in insertion order.                                 *)
(***************************************************************************)
EXTENDS Integers, Sequences, FiniteSets, TLC

VARIABLES
    file,        \* the source file: a sequence of lines
    columns,     \* the schema handed to the ingestor: <<name, type>> pairs
    pc,          \* position of the running program
    lineNo,      \* index of the next line of the file to be read
    tableDef,    \* blog_analysis.votes as created: <<>> or its column list
    votes,       \* rows of blog_analysis.votes, in physical order
    log,         \* diagnostics printed so far
    raised,      \* exception that ended the run ("none" while there is none)
    runs,        \* completed ingestion runs
    snapshots,   \* history: the relation at the end of each completed run
    eda,         \* what perform_eda returned
    viewDefined, \* whether blog_analysis.outlier_weeks is in the catalog
    result       \* the last fetchall() of detect_outliers

vars == <<file, columns, pc, lineNo, tableDef, votes, log, raised, runs,
          snapshots, eda, viewDefined, result>>

----------------------------------------------------------------------------
(* Bounds of the model *)

MaxLines == 3
MaxRuns == 2

----------------------------------------------------------------------------
(* Values and strings *)

Digits == <<"0", "1", "2", "3", "4", "5", "6", "7", "8", "9">>

IsDigit(c) == \E i \in 1..10 : Digits[i] = c

DigitVal(c) == (CHOOSE i \in 1..10 : Digits[i] = c) - 1

JInt(n) == [kind |-> "int", val |-> n]

JStr(s) == [kind |-> "str", val |-> s]

Null == [kind |-> "null", val |-> 0]

DateTime(t) == [kind |-> "datetime", val |-> t]

Ok(v) == [ok |-> TRUE, val |-> v]

Exc(e) == [ok |-> FALSE, exc |-> e]

RECURSIVE DigitsVal(_)
DigitsVal(s) ==
    IF s = <<>> THEN 0
    ELSE 10 * DigitsVal(SubSeq(s, 1, Len(s) - 1)) + DigitVal(s[Len(s)])

AllDigits(s) == s # <<>> /\ \A i \in 1..Len(s) : IsDigit(s[i])

RECURSIVE Strip(_)
Strip(s) ==
    IF s = <<>> THEN s
    ELSE IF s[1] = " " THEN Strip(Tail(s))
    ELSE IF s[Len(s)] = " " THEN Strip(SubSeq(s, 1, Len(s) - 1))
    ELSE s

\* Python's int(value): an int is returned as is; a str is stripped, may
\* carry one sign, and must then be all digits (ValueError otherwise);
\* None raises TypeError.
py_int(v) ==
    IF v.kind = "int" THEN Ok(v.val)
    ELSE IF v.kind = "str" THEN
        LET s == Strip(v.val)
            signed == s # <<>> /\ s[1] \in {"-", "+"}
            body == IF signed THEN Tail(s) ELSE s
        IN  IF AllDigits(body)
            THEN Ok(IF signed /\ s[1] = "-" THEN 0 - DigitsVal(body) ELSE DigitsVal(body))
            ELSE Exc("ValueError")
    ELSE Exc("TypeError")

Pad2(n) == <<Digits[(n \div 10) + 1], Digits[(n % 10) + 1]>>

Pad4(n) == Pad2(n \div 100) \o Pad2(n % 100)

DaysInMonth(y, m) ==
    IF m = 2 THEN (IF (y % 4 = 0 /\ y % 100 # 0) \/ y % 400 = 0 THEN 29 ELSE 28)
    ELSE IF m \in {4, 6, 9, 11} THEN 30 ELSE 31

\* datetime.strptime(value, '%Y-%m-%dT%H:%M:%S') on the two-digit field
\* layout: a non-str raises TypeError, any mismatch or out-of-range field
\* ValueError.
strptime(v) ==
    IF v.kind # "str" THEN Exc("TypeError")
    ELSE LET s == v.val
             num(a, b) == DigitsVal(SubSeq(s, a, b))
             shaped == /\ Len(s) = 19
                       /\ s[5] = "-" /\ s[8] = "-" /\ s[11] = "T"
                       /\ s[14] = ":" /\ s[17] = ":"
                       /\ \A i \in (1..19) \ {5, 8, 11, 14, 17} : IsDigit(s[i])
         IN  IF ~shaped THEN Exc("ValueError")
             ELSE LET Y == num(1, 4)  M == num(6, 7)  D == num(9, 10)
                      h == num(12, 13)  mi == num(15, 16)  sec == num(18, 19)
                  IN  IF /\ Y >= 1 /\ M \in 1..12 /\ D \in 1..DaysInMonth(Y, M)
                         /\ h <= 23 /\ mi <= 59 /\ sec <= 59 \* %S admits 60, 61; datetime() rejects them
                      THEN Ok(DateTime(<<Y, M, D, h, mi, sec>>))
                      ELSE Exc("ValueError")

FormatDateTime(t, sep) ==
    Pad4(t[1]) \o <<"-">> \o Pad2(t[2]) \o <<"-">> \o Pad2(t[3]) \o <<sep>>
        \o Pad2(t[4]) \o <<":">> \o Pad2(t[5]) \o <<":">> \o Pad2(t[6])

IsoString(t) == JStr(FormatDateTime(t, "T"))

strftime_T(t) == JStr(FormatDateTime(t, "T"))

\* datetime.now().strftime('%Y-%m-%d %H:%M:%S')
strftime(t) == JStr(FormatDateTime(t, " "))

----------------------------------------------------------------------------
(* Python dicts *)

DictKeys(d) == {d[i][1] : i \in 1..Len(d)}

DictHas(d, k) == k \in DictKeys(d)

DictGet(d, k) == d[CHOOSE i \in 1..Len(d) : d[i][1] = k][2]

DictSet(d, k, v) ==
    IF DictHas(d, k)
    THEN LET i == CHOOSE i \in 1..Len(d) : d[i][1] = k
         IN  SubSeq(d, 1, i - 1) \o <<<<k, v>>>> \o SubSeq(d, i + 1, Len(d))
    ELSE Append(d, <<k, v>>)

----------------------------------------------------------------------------
(* The source file and the schema *)

Malformed == [kind |-> "malformed", obj |-> <<>>]

JsonLine(obj) == [kind |-> "json", obj |-> obj]

\* json.loads(line.strip())
json_loads(line) ==
    IF line.kind = "json" THEN Ok(line.obj) ELSE Exc("JSONDecodeError")

INTEGER_T == <<"INTEGER">>

STRING_T == <<"STRING">>

TIMESTAMP_T == <<"TIMESTAMP">>

ColNames(cols) == {cols[i][1] : i \in 1..Len(cols)}

\* main: columns[primary_key] += ' PRIMARY KEY' (KeyError when the key is
\* no column of the schema)
MarkPrimaryKey(cols, pk) ==
    IF pk \in ColNames(cols)
    THEN Ok([i \in 1..Len(cols) |->
                IF cols[i][1] = pk THEN <<pk, cols[i][2] \o <<"PRIMARY", "KEY">>>>
                ELSE cols[i]])
    ELSE Exc("KeyError")

----------------------------------------------------------------------------
(* The storage engine: blog_analysis.votes *)

IsPrimaryKey(type) ==
    Len(type) >= 2 /\ SubSeq(type, Len(type) - 1, Len(type)) = <<"PRIMARY", "KEY">>

PrimaryKeyCols(def) == {def[i][1] : i \in {j \in 1..Len(def) : IsPrimaryKey(def[j][2])}}

InsertPlain(rows, def, row) == Append(rows, row)

\* INSERT OR REPLACE: rows that agree with the new row on the primary key
\* are deleted, then the new row is inserted.
InsertOrReplace(rows, def, row) ==
    LET pk == PrimaryKeyCols(def)
        clash(r) == pk # {} /\ \A c \in pk : r[c] = row[c]
        keep(r) == ~clash(r)
    IN  Append(SelectSeq(rows, keep), row)

\* CREATE TABLE IF NOT EXISTS
CreateTableIfNotExists(def, cols) == IF def = <<>> THEN cols ELSE def

----------------------------------------------------------------------------
(* VoteDataIngestor.ingest_votes, one line of the file *)

\* for col_name, col_type in columns.items(): if col_name not in vote: ...
RECURSIVE inject_defaults(_, _, _)
inject_defaults(vote, cols, now) ==
    IF cols = <<>> THEN vote
    ELSE LET name == Head(cols)[1]
             type == Head(cols)[2]
             patched ==
                 IF DictHas(vote, name) THEN vote
                 ELSE IF type = INTEGER_T THEN DictSet(vote, name, JInt(0))
                 ELSE IF type = TIMESTAMP_T THEN DictSet(vote, name, strftime(now))
                 ELSE vote
         IN  inject_defaults(patched, Tail(cols), now)

extra_columns_reversed(vote, cols) == ColNames(cols) \ DictKeys(vote)

\* extra_columns = set(vote.keys()) - set(columns.keys())
extra_columns(vote, cols) == DictKeys(vote) \ ColNames(cols)

\* One column of the coercion loop: the value that goes to insert_values,
\* or the exception raised.
coerce_column(vote, name, type) ==
    IF ~DictHas(vote, name) THEN Exc("KeyError")
    ELSE IF type = INTEGER_T THEN
        LET r == py_int(DictGet(vote, name))
        IN  IF r.ok THEN Ok(JInt(r.val)) ELSE r
    ELSE IF type = TIMESTAMP_T THEN strptime(DictGet(vote, name))
    ELSE Ok(DictGet(vote, name))

\* The coercion loop: [ok, vote, values] with the row's values by column
\* name, or [ok, vote, exc] at the first column that raises.
RECURSIVE coerce(_, _, _)
coerce(vote, cols, values) ==
    IF cols = <<>> THEN [ok |-> TRUE, vote |-> vote, values |-> values]
    ELSE LET name == Head(cols)[1]
             r == coerce_column(vote, name, Head(cols)[2])
         IN  IF r.ok
             THEN coerce(DictSet(vote, name, r.val), Tail(cols),
                         Append(values, <<name, r.val>>))
             ELSE [ok |-> FALSE, vote |-> vote, exc |-> r.exc]

insert_into_votes(rows, def, row) == InsertPlain(rows, def, row)

insert_or_ignore_into_votes(rows, def, row) ==
    IF \E k \in 1..Len(rows) :
          PrimaryKeyCols(def) # {} /\ \A c \in PrimaryKeyCols(def) : rows[k][c] = row[c]
    THEN rows
    ELSE Append(rows, row)

\* execute_query('INSERT OR REPLACE INTO blog_analysis.votes (...) VALUES (...)')
insert_or_replace_into_votes(rows, def, row) == InsertOrReplace(rows, def, row)

RowOf(values) == [c \in DictKeys(values) |-> DictGet(values, c)]

Caught == {"ValueError", "KeyError"}

ExtraMsg(n, cols) == [msg |-> "Extra columns found and ignored", line |-> n, cols |-> cols]

SkipMsg(n, vote, exc) ==
    [msg |-> "Skipping invalid record", line |-> n, vote |-> vote, exc |-> exc]

\* The body of "for line in f" for one line read at time now: the
\* successor values of <<votes, log, raised>>.  raised # "none" means the
\* exception left ingest_votes.
ingest_line(line, n, cols, def, rows, out, now) ==
    LET parsed == json_loads(line)
    IN  IF ~parsed.ok
        THEN [votes |-> rows, log |-> out, raised |-> parsed.exc]
        ELSE LET vote == inject_defaults(parsed.val, cols, now)
                 extra == extra_columns(vote, cols)
                 out1 == IF extra # {} THEN Append(out, ExtraMsg(n, extra)) ELSE out
                 c == coerce(vote, cols, <<>>)
             IN  IF c.ok
                 THEN [votes |-> insert_or_replace_into_votes(rows, def, RowOf(c.values)),
                       log |-> out1, raised |-> "none"]
                 ELSE IF c.exc \in Caught
                 THEN [votes |-> rows,
                       log |-> Append(out1, SkipMsg(n, c.vote, c.exc)),
                       raised |-> "none"]
                 ELSE [votes |-> rows, log |-> out1, raised |-> c.exc]

----------------------------------------------------------------------------
(* perform_eda *)

\* threshold = 0.97 * total_rows, as the ratio PresenceNum / PresenceDen
PresenceNum == 97

PresenceDen == 100

\* is_int(value): True, False, or the exception int() raises that is_int
\* does not catch.
is_int(value) ==
    LET r == py_int(value)
    IN  IF r.ok THEN Ok(TRUE)
        ELSE IF r.exc = "ValueError" THEN Ok(FALSE)
        ELSE r

\* sample_data = [json.loads(line.strip()) for line in f]: the list, or
\* the exception of the first line that does not parse.
load_sample(f) ==
    LET bad == {i \in 1..Len(f) : ~json_loads(f[i]).ok}
    IN  IF bad # {}
        THEN json_loads(f[CHOOSE i \in bad : \A k \in bad : i <= k])
        ELSE Ok([i \in 1..Len(f) |-> json_loads(f[i]).val])

\* for key, value in vote.items(): the counters after the fields of one
\* record from the i-th on.  acc is [ok, counts, types] or an exception.
RECURSIVE scan_record(_, _, _)
scan_record(vote, i, acc) ==
    IF i > Len(vote) \/ ~acc.ok THEN acc
    ELSE LET key == vote[i][1]
             isint == is_int(vote[i][2])
             count == IF DictHas(acc.counts, key) THEN DictGet(acc.counts, key) ELSE 0
             seen == IF DictHas(acc.types, key) THEN DictGet(acc.types, key) ELSE <<>>
         IN  IF ~isint.ok THEN isint
             ELSE scan_record(vote, i + 1,
                     [ok |-> TRUE,
                      counts |-> DictSet(acc.counts, key, count + 1),
                      types |-> DictSet(acc.types, key,
                                   Append(seen, IF isint.val THEN "INTEGER" ELSE "STRING"))])

\* for vote in sample_data: the records lo..hi in order, the first half
\* before the second.
RECURSIVE scan_sample(_, _, _, _)
scan_sample(sample, lo, hi, acc) ==
    IF lo > hi \/ ~acc.ok THEN acc
    ELSE IF lo = hi THEN scan_record(sample[lo], 1, acc)
    ELSE LET mid == (lo + hi) \div 2
         IN  scan_sample(sample, mid + 1, hi, scan_sample(sample, lo, mid, acc))

CountOf(types, t) == Cardinality({i \in 1..Len(types) : types[i] = t})

at_least_threshold_full(count, total_rows) == count = total_rows

\* count >= threshold.  For total_rows below 3000 the double 0.97 * total_rows
\* compares with every integer count as the exact ratio does.
at_least_threshold(count, total_rows) == PresenceDen * count >= PresenceNum * total_rows

\* filtered_columns = {col for col, count in column_counts.items() if count >= threshold}
filtered_columns(counts, total_rows) ==
    {counts[i][1] : i \in {j \in 1..Len(counts) : at_least_threshold(counts[j][2], total_rows)}}

majority_type_or_tie(types) ==
    IF 2 * CountOf(types, "INTEGER") >= Len(types) THEN INTEGER_T ELSE STRING_T

\* types.count("INTEGER") > len(types) / 2
majority_type(types) ==
    IF 2 * CountOf(types, "INTEGER") > Len(types) THEN INTEGER_T ELSE STRING_T

\* The type of a retained column, with CreationDate forced to TIMESTAMP.
inferred_type(column, types) ==
    IF column = "CreationDate" THEN TIMESTAMP_T ELSE majority_type(types)

primary_key_candidates_any(counts, total_rows) == counts

\* primary_key_candidates = [col for col, count in column_counts.items() if count == total_rows]
primary_key_candidates(counts, total_rows) ==
    LET keep(c) == c[2] = total_rows
    IN  SelectSeq(counts, keep)

\* perform_eda of ingest1.py up to the end of its counting loop:
\* [ok, total_rows, counts, types] or the exception raised.
analyse(f) ==
    LET loaded == load_sample(f)
    IN  IF ~loaded.ok THEN loaded
        ELSE LET acc == scan_sample(loaded.val, 1, Len(loaded.val),
                                    [ok |-> TRUE, counts |-> <<>>, types |-> <<>>])
             IN  IF ~acc.ok THEN acc
                 ELSE [ok |-> TRUE, total_rows |-> Len(loaded.val),
                       counts |-> acc.counts, types |-> acc.types]

infer_first_column(a, order) ==
    LET kept == filtered_columns(a.counts, a.total_rows)
        retained == SelectSeq(order, LAMBDA c : c \in kept)
        schema == [i \in 1..Len(retained) |->
                     <<retained[i], inferred_type(retained[i], DictGet(a.types, retained[i]))>>]
        cands == primary_key_candidates(a.counts, a.total_rows)
    IN  IF cands = <<>> /\ a.counts = <<>> THEN Exc("ValueError")
        ELSE [ok |-> TRUE, schema |-> schema,
              pk |-> IF cands = <<>> THEN a.counts[1][1] ELSE cands[1][1]]

\* perform_eda of ingest1.py from the threshold on.  order is the
\* iteration order of the set filtered_columns.
infer(a, order) ==
    LET kept == filtered_columns(a.counts, a.total_rows)
        retained == SelectSeq(order, LAMBDA c : c \in kept)
        schema == [i \in 1..Len(retained) |->
                     <<retained[i], inferred_type(retained[i], DictGet(a.types, retained[i]))>>]
        cands == primary_key_candidates(a.counts, a.total_rows)
    IN  IF cands = <<>> THEN Exc("ValueError")
        ELSE [ok |-> TRUE, schema |-> schema, pk |-> cands[1][1]]

\* perform_eda of ingest1.py: every result it may return, or the exception.
perform_eda(f, orders) ==
    LET a == analyse(f)
    IN  IF a.ok THEN {infer(a, o) : o \in orders} ELSE {a}

\* perform_eda of ingest.py, the type of a value seen first for its key:
\* <<type>>, or <<>> for a value that is neither int nor str.
first_seen_type(value) ==
    IF value.kind = "int" THEN <<INTEGER_T>>
    ELSE IF value.kind = "str"
    THEN (IF strptime(value).ok THEN <<TIMESTAMP_T>> ELSE <<STRING_T>>)
    ELSE <<>>

RECURSIVE scan_record_ingest_py(_, _, _)
scan_record_ingest_py(vote, i, acc) ==
    IF i > Len(vote) THEN acc
    ELSE LET key == vote[i][1]
             t == first_seen_type(vote[i][2])
             seen == IF DictHas(acc.values, key) THEN DictGet(acc.values, key) ELSE <<>>
             counted == DictSet(acc.values, key, Append(seen, vote[i][2]))
         IN  IF DictHas(acc.types, key) \/ t = <<>>
             THEN scan_record_ingest_py(vote, i + 1, [types |-> acc.types, values |-> counted])
             ELSE scan_record_ingest_py(vote, i + 1,
                      [types |-> DictSet(acc.types, key, t[1]), values |-> counted])

RECURSIVE scan_sample_ingest_py(_, _, _, _)
scan_sample_ingest_py(sample, lo, hi, acc) ==
    IF lo > hi THEN acc
    ELSE IF lo = hi THEN scan_record_ingest_py(sample[lo], 1, acc)
    ELSE LET mid == (lo + hi) \div 2
         IN  scan_sample_ingest_py(sample, mid + 1, hi,
                                   scan_sample_ingest_py(sample, lo, mid, acc))

\* all(count == 1 for count in counts.values())
AllDistinct(vals) == \A i, j \in 1..Len(vals) : vals[i] = vals[j] => i = j

\* perform_eda of ingest.py: the key is the first column none of whose
\* values repeats.
perform_eda_ingest_py(f) ==
    LET loaded == load_sample(f)
    IN  IF ~loaded.ok THEN loaded
        ELSE
        LET acc == scan_sample_ingest_py(loaded.val, 1, Len(loaded.val),
                                         [types |-> <<>>, values |-> <<>>])
            cands == SelectSeq(acc.values, LAMBDA c : AllDistinct(c[2]))
        IN  IF cands = <<>> THEN Exc("ValueError")
            ELSE [ok |-> TRUE, schema |-> acc.types, pk |-> cands[1][1]]

----------------------------------------------------------------------------
(* Inputs of the ingestion runs *)

Day1 == <<2022, 1, 3, 10, 0, 0>>

Day2 == <<2022, 1, 8, 23, 59, 59>>

\* Readings of datetime.now()
Clock == {<<2024, 5, 1, 12, 0, 0>>, <<2024, 5, 1, 12, 0, 1>>}

Chars1(c) == JStr(<<c>>)

Lines == <<
    \* well-formed, every column present
    JsonLine(<<<<"Id", JInt(1)>>, <<"VoteTypeId", Chars1("2")>>, <<"CreationDate", IsoString(Day1)>>>>),
    \* the same key again, other content
    JsonLine(<<<<"Id", JInt(1)>>, <<"VoteTypeId", JInt(1)>>, <<"CreationDate", IsoString(Day2)>>>>),
    \* VoteTypeId missing
    JsonLine(<<<<"Id", JInt(2)>>, <<"CreationDate", IsoString(Day1)>>>>),
    \* CreationDate missing
    JsonLine(<<<<"Id", JInt(2)>>, <<"VoteTypeId", Chars1("2")>>>>),
    \* bad integer literal
    JsonLine(<<<<"Id", JInt(3)>>, <<"VoteTypeId", Chars1("x")>>, <<"CreationDate", IsoString(Day1)>>>>),
    \* bad date format
    JsonLine(<<<<"Id", JInt(3)>>, <<"VoteTypeId", Chars1("2")>>, <<"CreationDate", JStr(FormatDateTime(Day1, " "))>>>>),
    \* an extra field
    JsonLine(<<<<"Id", JInt(3)>>, <<"UserId", JInt(7)>>, <<"VoteTypeId", Chars1("2")>>, <<"CreationDate", IsoString(Day2)>>>>),
    \* not JSON
    Malformed,
    \* the key column missing
    JsonLine(<<<<"VoteTypeId", Chars1("2")>>, <<"CreationDate", IsoString(Day1)>>>>),
    \* a date that is no string, after a bad integer literal
    JsonLine(<<<<"Id", JInt(2)>>, <<"VoteTypeId", Chars1("x")>>, <<"CreationDate", JInt(5)>>>>),
    \* null where an integer is declared
    JsonLine(<<<<"Id", JInt(2)>>, <<"VoteTypeId", Null>>, <<"CreationDate", IsoString(Day1)>>>>)
>>

LineSet == {Lines[i] : i \in 1..Len(Lines)}

Files == UNION {[1..n -> LineSet] : n \in 1..MaxLines}

\* Schemas as main hands them over: an inferred schema with its primary key
\* marked.
Schemas == {
    MarkPrimaryKey(<<<<"Id", INTEGER_T>>, <<"VoteTypeId", INTEGER_T>>, <<"CreationDate", TIMESTAMP_T>>>>, "Id").val,
    MarkPrimaryKey(<<<<"CreationDate", TIMESTAMP_T>>, <<"VoteTypeId", INTEGER_T>>, <<"Id", INTEGER_T>>>>, "Id").val,
    MarkPrimaryKey(<<<<"Id", STRING_T>>, <<"VoteTypeId", STRING_T>>>>, "Id").val
}

NoEda == [ok |-> FALSE, exc |-> "not run", by |-> "none"]

----------------------------------------------------------------------------
(* Ingestion runs: create_schema_and_table, then ingest_votes line by line *)

Init ==
    /\ file \in Files
    /\ columns \in Schemas
    /\ pc = "create"
    /\ lineNo = 1
    /\ tableDef = <<>>
    /\ votes = <<>>
    /\ log = <<>>
    /\ raised = "none"
    /\ runs = 0
    /\ snapshots = <<>>
    /\ eda = NoEda
    /\ viewDefined = FALSE
    /\ result = <<>>

create_schema_and_table ==
    /\ pc = "create"
    /\ tableDef' = CreateTableIfNotExists(tableDef, columns)
    /\ pc' = "ingest"
    /\ lineNo' = 1
    /\ UNCHANGED <<file, columns, votes, log, raised, runs, snapshots, eda,
                   viewDefined, result>>

\* One iteration of the loop of ingest_votes.
ingest_votes ==
    /\ pc = "ingest"
    /\ lineNo <= Len(file)
    /\ \E now \in Clock :
          \E next \in {ingest_line(file[lineNo], lineNo, columns, tableDef, votes, log, now)} :
              /\ votes' = next.votes
              /\ log' = next.log
              /\ raised' = next.raised
              /\ pc' = IF next.raised = "none" THEN "ingest" ELSE "error"
    /\ lineNo' = lineNo + 1
    /\ UNCHANGED <<file, columns, tableDef, runs, snapshots, eda, viewDefined, result>>

\* The loop ends; main closes the connection.
close ==
    /\ pc = "ingest"
    /\ lineNo > Len(file)
    /\ pc' = "done"
    /\ runs' = runs + 1
    /\ snapshots' = Append(snapshots, votes)
    /\ UNCHANGED <<file, columns, lineNo, tableDef, votes, log, raised, eda,
                   viewDefined, result>>

\* The program is run again over the same file and database.
rerun ==
    /\ pc = "done"
    /\ runs < MaxRuns
    /\ pc' = "create"
    /\ lineNo' = 1
    /\ log' = <<>>
    /\ UNCHANGED <<file, columns, tableDef, votes, raised, runs, snapshots, eda,
                   viewDefined, result>>

Next == create_schema_and_table \/ ingest_votes \/ close \/ rerun

Spec == Init /\ [][Next]_vars

----------------------------------------------------------------------------
(* Properties of the ingestion runs *)

SameRows(a, b) == Len(a) = Len(b) /\ {a[i] : i \in 1..Len(a)} = {b[i] : i \in 1..Len(b)}

\* The record of the line processed last, and what it lacks or adds.
LastLine == file[lineNo - 1]

Processed == lineNo > 1 /\ LastLine.kind = "json"

Defaulted(rec) ==
    {i \in 1..Len(columns) :
        columns[i][2] \in {INTEGER_T, TIMESTAMP_T} /\ ~DictHas(rec, columns[i][1])}

\* Every column the record carries coerces, and it lacks no column other
\* than the ones in miss.
ValidApartFrom(rec, miss) ==
    \A i \in (1..Len(columns)) \ miss :
        coerce_column(rec, columns[i][1], columns[i][2]).ok

LastRow == votes[Len(votes)]

\* C1: running the ingestion again over the same file leaves the relation
\* with the same rows (same keys, same values) as the run before it.
C1_Idempotent ==
    \A i \in 2..Len(snapshots) : SameRows(snapshots[i], snapshots[i - 1])

\* Two runs completed over a file in which a later line replaced the row
\* of an earlier one.
C1_Witness ==
    /\ pc = "done" /\ runs = 2 /\ Len(file) = 3 /\ log = <<>>
    /\ Len(snapshots[2]) = 2

\* C2: no single record ends the run with an error: whatever a line holds,
\* the run goes on to the lines after it.
C2_FailureIsolation == pc # "error"

\* C3: a record that lacks an INTEGER or TIMESTAMP column, and is valid in
\* the columns it has, is upserted with 0 and with an ingestion-time
\* placeholder in the columns it lacks.
C3_DefaultInjection ==
    (Processed /\ Defaulted(LastLine.obj) # {}
        /\ ValidApartFrom(LastLine.obj, Defaulted(LastLine.obj)))
    => /\ raised = "none"
       /\ votes # <<>>
       /\ \A i \in 1..Len(columns) :
            LET name == columns[i][1]
            IN  IF i \notin Defaulted(LastLine.obj)
                THEN LastRow[name] = coerce_column(LastLine.obj, name, columns[i][2]).val
                ELSE IF columns[i][2] = INTEGER_T
                THEN LastRow[name] = JInt(0)
                ELSE LastRow[name].kind = "datetime" /\ LastRow[name].val \in Clock

C10_ExtraFieldDrop ==
    (Processed /\ DictKeys(LastLine.obj) \ ColNames(columns) # {}
        /\ ValidApartFrom(LastLine.obj, {}))
    => /\ raised = "none"
       /\ votes # <<>>
       /\ DOMAIN LastRow = ColNames(columns)
       /\ \A i \in 1..Len(columns) :
            LastRow[columns[i][1]] = coerce_column(LastLine.obj, columns[i][1], columns[i][2]).val
       /\ \E k \in 1..Len(log) :
            log[k] = ExtraMsg(lineNo - 1, DictKeys(LastLine.obj) \ ColNames(columns))

\* A record with the extra field UserId has been stored.
C10_Witness ==
    /\ Processed /\ DictHas(LastLine.obj, "UserId")
    /\ ValidApartFrom(LastLine.obj, {})
    /\ votes # <<>> /\ "UserId" \notin DOMAIN LastRow

\* The lines of the file that the run reported as skipped.
Skipped ==
    {i \in 1..Len(file) :
        \E k \in 1..Len(log) : log[k].msg = "Skipping invalid record" /\ log[k].line = i}

\* The records that were not skipped.
Survivors == {i \in 1..Len(file) : file[i].kind = "json"} \ Skipped

\* The primary-key value the record of line i carries.
KeyOf(i) == [c \in PrimaryKeyCols(columns) |-> DictGet(file[i].obj, c)]

\* The survivors that no later survivor with the same key follows.
LastSurvivors == {i \in Survivors : \A j \in Survivors : j > i => KeyOf(j) # KeyOf(i)}

\* The stored value v is what the column holds for the record: an integer
\* for INTEGER, a date-time for TIMESTAMP, the value as read otherwise; 0
\* and an ingestion-time reading for a field the record lacks.
StoredAs(v, rec, name, type) ==
    IF type = INTEGER_T
    THEN /\ v.kind = "int"
         /\ v = IF DictHas(rec, name) THEN JInt(py_int(DictGet(rec, name)).val) ELSE JInt(0)
    ELSE IF type = TIMESTAMP_T
    THEN /\ v.kind = "datetime"
         /\ IF DictHas(rec, name) THEN v = strptime(DictGet(rec, name)).val
            ELSE v.val \in Clock
    ELSE DictHas(rec, name) /\ v = DictGet(rec, name)

\* The row is the record of line i, coerced.
RowFor(row, i) ==
    /\ DOMAIN row = ColNames(columns)
    /\ \A k \in 1..Len(columns) :
          StoredAs(row[columns[k][1]], file[i].obj, columns[k][1], columns[k][2])

\* C13: after ingest_votes completes, the relation holds one row for each
\* key carried by a surviving record, with the coerced values of the last
\* surviving record with that key, and no other row.
C13_LastWriterWins ==
    pc = "done"
    => /\ \A i \in Survivors : PrimaryKeyCols(columns) \subseteq DictKeys(file[i].obj)
       /\ Len(votes) = Cardinality(LastSurvivors)
       /\ \A i \in LastSurvivors : \E k \in 1..Len(votes) : RowFor(votes[k], i)
       /\ \A k \in 1..Len(votes) : \E i \in LastSurvivors : RowFor(votes[k], i)

\* A run completed in which a later record replaced the row of an earlier
\* one with other values, a record was skipped, and an integer was stored
\* for a string literal.
C13_Witness ==
    /\ pc = "done" /\ runs = 1
    /\ Skipped # {}
    /\ \E i \in Survivors \ LastSurvivors, j \in LastSurvivors :
          /\ i < j /\ KeyOf(i) = KeyOf(j)
          /\ \E c \in ColNames(columns) :
                /\ DictHas(file[i].obj, c) /\ DictHas(file[j].obj, c)
                /\ DictGet(file[i].obj, c) # DictGet(file[j].obj, c)
    /\ \E k \in 1..Len(votes), i \in Survivors, c \in ColNames(columns) :
          DictHas(file[i].obj, c) /\ DictGet(file[i].obj, c).kind = "str"
          /\ votes[k][c].kind = "int"

----------------------------------------------------------------------------
(* Schema inference runs: main up to the marking of the primary key *)

MaxRows == 35
SmallRows == 3

EdaFields == <<"Id", "PostId", "CreationDate">>

FieldSet == {EdaFields[i] : i \in 1..Len(EdaFields)}

\* The orders in which a set of column names may be iterated.
Orders ==
    {o \in [1..Len(EdaFields) -> FieldSet] :
        \A i, j \in 1..Len(EdaFields) : o[i] = o[j] => i = j}

SmallLines == <<
    JsonLine(<<<<"Id", JInt(1)>>, <<"PostId", JInt(5)>>, <<"CreationDate", IsoString(Day1)>>>>),
    JsonLine(<<<<"Id", JInt(2)>>, <<"PostId", JInt(5)>>, <<"CreationDate", JInt(5)>>>>),
    JsonLine(<<<<"PostId", JInt(5)>>, <<"Id", JInt(1)>>>>),
    JsonLine(<<<<"PostId", Chars1("x")>>, <<"Id", Chars1("2")>>>>),
    JsonLine(<<<<"Id", JInt(1)>>>>),
    JsonLine(<<<<"CreationDate", IsoString(Day2)>>, <<"Id", Chars1("x")>>>>),
    JsonLine(<<>>),
    JsonLine(<<<<"Id", JInt(3)>>, <<"PostId", Null>>>>),
    Malformed
>>

SmallFiles ==
    UNION {[1..n -> {SmallLines[i] : i \in 1..Len(SmallLines)}] : n \in 0..SmallRows}

\* A sample of n records, each with its own Id, whose first k records
\* carry field f, the first j of them with an integer literal.
Synthetic(n, k, j, f) ==
    [i \in 1..n |->
        JsonLine(<<<<"Id", JInt(i)>>>> \o
                 (IF i > k THEN <<>>
                  ELSE IF i <= j THEN <<<<f, Chars1("7")>>>>
                  ELSE <<<<f, Chars1("x")>>>>))]

\* For each n and k the integer counts around the majority boundary.
SyntheticFiles ==
    UNION {UNION {{Synthetic(n, k, j, f) :
                      j \in {0, k \div 2, (k \div 2) + 1, k} \cap (0..k),
                      f \in {"PostId", "CreationDate"}} :
                  k \in 0..n} :
           n \in 1..MaxRows}

EdaFiles == SmallFiles \cup SyntheticFiles

InitEda ==
    /\ file \in EdaFiles
    /\ columns = <<>>
    /\ pc = "main"
    /\ lineNo = 1
    /\ tableDef = <<>>
    /\ votes = <<>>
    /\ log = <<>>
    /\ raised = "none"
    /\ runs = 0
    /\ snapshots = <<>>
    /\ eda = NoEda
    /\ viewDefined = FALSE
    /\ result = <<>>

\* main: columns, primary_key = perform_eda(file_path), in either version
\* of the program.
main_perform_eda_of(by) ==
    /\ pc = "main"
    /\ \E r \in IF by = "ingest1.py" THEN perform_eda(file, Orders)
                 ELSE {perform_eda_ingest_py(file)} :
          /\ eda' = [by |-> by] @@ r
          /\ pc' = IF r.ok THEN "mark" ELSE "error"
          /\ raised' = IF r.ok THEN "none" ELSE r.exc
    /\ UNCHANGED <<file, columns, lineNo, tableDef, votes, log, runs, snapshots,
                   viewDefined, result>>

main_perform_eda == \E by \in {"ingest1.py", "ingest.py"} : main_perform_eda_of(by)

\* main: columns[primary_key] += ' PRIMARY KEY'
main_mark_primary_key ==
    /\ pc = "mark"
    /\ \E r \in {MarkPrimaryKey(eda.schema, eda.pk)} :
          /\ columns' = IF r.ok THEN r.val ELSE columns
          /\ pc' = IF r.ok THEN "create" ELSE "error"
          /\ raised' = IF r.ok THEN "none" ELSE r.exc
    /\ UNCHANGED <<file, lineNo, tableDef, votes, log, runs, snapshots, eda,
                   viewDefined, result>>

NextEda == main_perform_eda \/ main_mark_primary_key

SpecEda == InitEda /\ [][NextEda]_vars

----------------------------------------------------------------------------
(* Properties of schema inference *)

Records == {i \in 1..Len(file) : file[i].kind = "json"}

\* The records of the sample that carry the field.
Occurrences(field) == {i \in Records : DictHas(file[i].obj, field)}

IntOccurrences(field) ==
    {i \in Occurrences(field) : py_int(DictGet(file[i].obj, field)).ok}

Repeats(field) ==
    \E i, j \in Occurrences(field) :
        i # j /\ DictGet(file[i].obj, field) = DictGet(file[j].obj, field)

KeyLike(field) ==
    Cardinality(Occurrences(field)) = Len(file) /\ ~Repeats(field)

Returned(by) == pc \in {"mark", "create"} /\ eda.ok /\ eda.by = by

\* C4: perform_eda returns no key that is present in every record with a
\* repeated value, and raises when no field is both present in every
\* record and free of repeats.
C4_KeyIsUnique ==
    (pc # "main" /\ eda.by = "ingest1.py")
    => /\ eda.ok => ~(Cardinality(Occurrences(eda.pk)) = Len(file) /\ Repeats(eda.pk))
       /\ (\A field \in FieldSet : ~KeyLike(field)) => ~eda.ok

C4_KeyIsUnique_ingest_py ==
    (pc # "main" /\ eda.by = "ingest.py")
    => /\ eda.ok => ~(Cardinality(Occurrences(eda.pk)) = Len(file) /\ Repeats(eda.pk))
       /\ (\A field \in FieldSet : ~KeyLike(field)) => ~eda.ok

C7_TypeMajority ==
    Returned("ingest1.py")
    => \A i \in 1..Len(eda.schema) :
          LET field == eda.schema[i][1]
          IN  eda.schema[i][2] =
                  IF field = "CreationDate" THEN TIMESTAMP_T
                  ELSE IF 2 * Cardinality(IntOccurrences(field)) > Cardinality(Occurrences(field))
                  THEN INTEGER_T
                  ELSE STRING_T

\* The schema holds a STRING column half of whose values are integers, or
\* a TIMESTAMP column all of whose values are integers.
C7_Witness ==
    /\ Returned("ingest1.py")
    /\ \E i \in 1..Len(eda.schema) :
          LET field == eda.schema[i][1]
          IN  /\ field # "CreationDate"
              /\ IntOccurrences(field) # {}
              /\ 2 * Cardinality(IntOccurrences(field)) = Cardinality(Occurrences(field))
              /\ eda.schema[i][2] = STRING_T

\* The columns of main's schema that carry the PRIMARY KEY constraint.
Marked == {i \in 1..Len(columns) : IsPrimaryKey(columns[i][2])}

\* C12: the key perform_eda returns is a column of the schema it returns,
\* so main's columns[primary_key] raises nothing and marks that column and
\* no other.
C12_KeyInSchema ==
    (eda.by = "ingest1.py" /\ eda.ok)
    => /\ \E i \in 1..Len(eda.schema) : eda.schema[i][1] = eda.pk
       /\ pc # "error" /\ raised = "none"
       /\ pc = "create"
            => /\ Cardinality(Marked) = 1
               /\ Len(columns) = Len(eda.schema)
               /\ \A i \in 1..Len(columns) :
                     /\ columns[i][1] = eda.schema[i][1]
                     /\ i \in Marked <=> columns[i][1] = eda.pk
                     /\ columns[i][2] = IF i \in Marked
                                        THEN eda.schema[i][2] \o <<"PRIMARY", "KEY">>
                                        ELSE eda.schema[i][2]

\* The key has been marked in a schema of several columns, inferred from
\* a sample one of whose fields was not retained.
C12_Witness ==
    /\ pc = "create" /\ eda.by = "ingest1.py" /\ Len(columns) >= 2
    /\ \E field \in FieldSet :
          Occurrences(field) # {} /\ \A i \in 1..Len(columns) : columns[i][1] # field

----------------------------------------------------------------------------
(* Whole runs of main of ingest1.py: inference, then creation and ingestion *)

MainRows == 2

\* A sample in which Id and PostId are each missing from one record: both
\* are retained, neither is present in every record.
NoKeyFile ==
    [i \in 1..34 |->
        JsonLine((IF i < 34 THEN <<<<"Id", JInt(i)>>>> ELSE <<>>) \o
                 (IF i > 1 THEN <<<<"PostId", JInt(5)>>>> ELSE <<>>))]

MainFiles ==
    UNION {[1..n -> {SmallLines[i] : i \in 1..Len(SmallLines)}] : n \in 0..MainRows}
        \cup {NoKeyFile}

InitMain ==
    /\ file \in MainFiles
    /\ columns = <<>>
    /\ pc = "main"
    /\ lineNo = 1
    /\ tableDef = <<>>
    /\ votes = <<>>
    /\ log = <<>>
    /\ raised = "none"
    /\ runs = 0
    /\ snapshots = <<>>
    /\ eda = NoEda
    /\ viewDefined = FALSE
    /\ result = <<>>

NextMain ==
    \/ main_perform_eda_of("ingest1.py")
    \/ main_mark_primary_key
    \/ create_schema_and_table
    \/ ingest_votes
    \/ close

SpecMain == InitMain /\ [][NextMain]_vars

\* No field of the sample is present in every record.
NoKeyField ==
    \A i \in Records : \A k \in 1..Len(file[i].obj) :
        Cardinality(Occurrences(file[i].obj[k][1])) # Len(file)

\* perform_eda has been called and has raised.
EdaFailed == eda.by # "none" /\ ~eda.ok

\* C11: when no field qualifies as primary key, perform_eda raises and the
\* run ends with the error: the relation is never created and nothing is
\* upserted after a failed perform_eda.
C11_AbortBeforeCreate ==
    /\ (eda.by # "none" /\ Records = 1..Len(file) /\ NoKeyField)
          => EdaFailed
    /\ EdaFailed
          => pc = "error" /\ raised = eda.exc /\ tableDef = <<>> /\ votes = <<>> /\ columns = <<>>

\* Inference failed over a sample whose fields are retained in the schema
\* although none of them is in every record.
C11_Witness ==
    /\ EdaFailed /\ eda.exc = "ValueError" /\ pc = "error"
    /\ file = NoKeyFile

----------------------------------------------------------------------------
(* The outlier view: the query of OutlierDetector.create_view *)

\* The day number of a civil date (1970-01-01 is day 0).
days_from_civil(y, m, d) ==
    LET yy == IF m <= 2 THEN y - 1 ELSE y
        era == yy \div 400
        yoe == yy - era * 400
        doy == ((153 * (IF m > 2 THEN m - 3 ELSE m + 9) + 2) \div 5) + d - 1
        doe == yoe * 365 + (yoe \div 4) - (yoe \div 100) + doy
    IN  era * 146097 + doe - 719468

\* The civil date <<y, m, d>> of a day number.
civil_from_days(z) ==
    LET zz == z + 719468
        era == zz \div 146097
        doe == zz - era * 146097
        yoe == (doe - (doe \div 1460) + (doe \div 36524) - (doe \div 146096)) \div 365
        doy == doe - (365 * yoe + (yoe \div 4) - (yoe \div 100))
        mp == (5 * doy + 2) \div 153
        d == doy - ((153 * mp + 2) \div 5) + 1
        m == IF mp < 10 THEN mp + 3 ELSE mp - 9
    IN  <<(yoe + era * 400) + (IF m <= 2 THEN 1 ELSE 0), m, d>>

\* DATE_TRUNC('week', CreationDate): the day number of the Monday that
\* starts the week of the timestamp.
date_trunc_week(ts) ==
    LET day == days_from_civil(ts.val[1], ts.val[2], ts.val[3])
    IN  day - ((day + 3) % 7)

\* STRFTIME(Week, '%Y')
strftime_Y(week) == Pad4(civil_from_days(week)[1])

\* STRFTIME(Week, '%W'): the week of the year, weeks starting on Monday
strftime_W(week) ==
    LET yday == week - days_from_civil(civil_from_days(week)[1], 1, 1)
    IN  Pad2((yday + 7 - ((week + 3) % 7)) \div 7)

\* WHERE VoteTypeId = 2
VoteTypeFilter == 2

matching(rows) == {i \in 1..Len(rows) : rows[i]["VoteTypeId"] = JInt(VoteTypeFilter)}

\* vote_counts: GROUP BY Week, COUNT(*); a <<Week, VoteCount>> pair for each
\* week that has a matching row.
vote_counts(rows) ==
    LET weekOf == {<<i, date_trunc_week(rows[i]["CreationDate"])>> : i \in matching(rows)}
    IN  {<<w, Cardinality({p \in weekOf : p[2] = w})>> : w \in {p[2] : p \in weekOf}}

\* The sum of the second components of a set of pairs.
RECURSIVE SumOver(_)
SumOver(pairs) ==
    IF pairs = {} THEN 0
    ELSE LET p == CHOOSE p \in pairs : TRUE
         IN  p[2] + SumOver(pairs \ {p})

exceeds_or_equals(c, n, sum, sumsq) ==
    n * c - sum >= 0 /\ (n * c - sum) * (n * c - sum) >= 4 * (n * sumsq - sum * sum)

\* VoteCount > (mean_votes + 2 * stddev_votes) with mean_votes = sum / n and
\* stddev_votes = sqrt(n * sumsq - sum * sum) / n, in exact arithmetic.
exceeds(c, n, sum, sumsq) ==
    n * c - sum > 0 /\ (n * c - sum) * (n * c - sum) > 4 * (n * sumsq - sum * sum)

\* The rows of blog_analysis.outlier_weeks over the current relation.
outlier_weeks(rows) ==
    LET vc == vote_counts(rows)
        n == Cardinality(vc)
        sum == SumOver(vc)
        sumsq == SumOver({<<p[1], p[2] * p[2]>> : p \in vc})
    IN  {[Year |-> strftime_Y(p[1]), WeekNumber |-> strftime_W(p[1]), VoteCount |-> p[2]] :
            p \in {q \in vc : exceeds(q[2], n, sum, sumsq)}}

----------------------------------------------------------------------------
(* Outlier runs: main of outliers1.py over a populated relation *)

MaxPerWeek == 3

\* The Mondays of seven consecutive weeks, the first one in the year before.
FirstMonday == days_from_civil(2021, 12, 27)

Mondays == <<FirstMonday, FirstMonday + 7, FirstMonday + 14, FirstMonday + 21,
             FirstMonday + 28, FirstMonday + 35, FirstMonday + 42>>

VotesTable ==
    <<<<"Id", INTEGER_T \o <<"PRIMARY", "KEY">>>>, <<"VoteTypeId", INTEGER_T>>,
      <<"CreationDate", TIMESTAMP_T>>>>

VoteRow(id, type, day) ==
    [Id |-> JInt(id), VoteTypeId |-> JInt(type),
     CreationDate |-> DateTime(civil_from_days(day) \o <<12, 30, 0>>)]

RECURSIVE Before(_, _)
Before(c, w) == IF w = 1 THEN 0 ELSE c[w - 1] + Before(c, w - 1)

\* A relation with c[w] votes of type 2 spread over the days of week w, for
\* the first six weeks, and one vote of type 1 in each week of other.
Relation(c, other) ==
    LET total == Before(c, 7)
        typed == [k \in 1..total |->
                    LET w == CHOOSE w \in 1..6 : Before(c, w) < k /\ k <= Before(c, w) + c[w]
                    IN  VoteRow(k, VoteTypeFilter, Mondays[w] + ((5 * (k - Before(c, w))) % 7))]
        others == [k \in 1..Len(other) |-> VoteRow(total + k, 1, Mondays[other[k]] + 6)]
    IN  typed \o others

InitOutliers ==
    /\ \E c \in [1..6 -> 0..MaxPerWeek], other \in {<<>>, <<1>>, <<2, 7>>} :
          \/ tableDef = VotesTable /\ votes = Relation(c, other)
          \/ tableDef = <<>> /\ votes = <<>>
    /\ file = <<>>
    /\ columns = <<>>
    /\ pc = "detect"
    /\ lineNo = 1
    /\ log = <<>>
    /\ raised = "none"
    /\ runs = 0
    /\ snapshots = <<>>
    /\ eda = NoEda
    /\ viewDefined = FALSE
    /\ result = <<>>

\* detect_outliers: self.create_view().  The engine refuses a view over a
\* relation that does not exist.
create_view ==
    /\ pc = "detect"
    /\ IF tableDef = <<>>
       THEN pc' = "error" /\ raised' = "CatalogException" /\ UNCHANGED viewDefined
       ELSE pc' = "verify" /\ viewDefined' = TRUE /\ UNCHANGED raised
    /\ UNCHANGED <<file, columns, lineNo, tableDef, votes, log, runs, snapshots,
                   eda, result>>

\* detect_outliers: the view must be in the catalog.
detect_outliers_verify ==
    /\ pc = "verify"
    /\ result' = IF viewDefined THEN <<<<"outlier_weeks">>>> ELSE <<>>
    /\ IF Len(result') # 1
       THEN pc' = "error" /\ raised' = "Exception"
       ELSE pc' = "check" /\ UNCHANGED raised
    /\ UNCHANGED <<file, columns, lineNo, tableDef, votes, log, runs, snapshots,
                   eda, viewDefined>>

\* detect_outliers: SELECT COUNT(*) FROM blog_analysis.outlier_weeks must
\* not be 0.
detect_outliers_check ==
    /\ pc = "check"
    /\ result' = <<<<Cardinality(outlier_weeks(votes))>>>>
    /\ IF result'[1][1] = 0
       THEN pc' = "error" /\ raised' = "Exception"
       ELSE pc' = "close" /\ UNCHANGED raised
    /\ UNCHANGED <<file, columns, lineNo, tableDef, votes, log, runs, snapshots,
                   eda, viewDefined>>

\* main: db_conn.close()
main_close ==
    /\ pc = "close"
    /\ pc' = "done"
    /\ UNCHANGED <<file, columns, lineNo, tableDef, votes, log, raised, runs,
                   snapshots, eda, viewDefined, result>>

NextOutliers == create_view \/ detect_outliers_verify \/ detect_outliers_check \/ main_close

SpecOutliers == InitOutliers /\ [][NextOutliers]_vars

----------------------------------------------------------------------------
(* Properties of the outlier view *)

\* <<row, day number>> for the votes of type 2.
TypeTwoDays ==
    {<<i, days_from_civil(votes[i]["CreationDate"].val[1], votes[i]["CreationDate"].val[2],
                          votes[i]["CreationDate"].val[3])>> :
        i \in {k \in 1..Len(votes) : votes[k]["VoteTypeId"] = JInt(2)}}

\* <<week, count>> for the weeks that have a vote of type 2.
Observed ==
    LET days == TypeTwoDays
    IN  {p \in {<<Mondays[k],
                  Cardinality({q \in days : q[2] \in Mondays[k]..(Mondays[k] + 6)})>> :
                    k \in DOMAIN Mondays} : p[2] > 0}

\* The weeks of obs whose count is above mean + 2 * stddev, with the
\* population variance as the mean of the squared distances from the mean.
\* dev holds n times the distance of each week's count from the mean.
OutliersOf(obs) ==
    LET n == Cardinality(obs)
        total == SumOver(obs)
        dev == {<<p[1], n * p[2] - total>> : p \in obs}
        sqsum == SumOver({<<d[1], d[2] * d[2]>> : d \in dev})
    IN  {p \in obs : \E d \in dev : d[1] = p[1] /\ d[2] > 0 /\ n * d[2] * d[2] > 4 * sqsum}

Outliers == OutliersOf(Observed)

\* The weeks of obs, in order, have counts a, b, c.
WeeklyCountsOf(obs, a, b, c) ==
    /\ Cardinality(obs) = 3
    /\ \E u, v, w \in obs :
          /\ u[1] < v[1] /\ v[1] < w[1]
          /\ u[2] = a /\ v[2] = b /\ w[2] = c

C8_WitnessCounts == viewDefined /\ WeeklyCountsOf(Observed, 3, 3, 1)

\* C9: over an existing relation in which no week is above the threshold,
\* the run raises nothing and leaves an empty view in the catalog.
C9_EmptyViewSucceeds ==
    (tableDef # <<>> /\ Outliers = {})
    => /\ pc # "error"
       /\ pc = "done" => viewDefined /\ outlier_weeks(votes) = {}

====
